---- MODULE Spec2Model ----
(***************************************************************************)
(* Forward-mode seismogram synthesis of ForwardMergedInstaseisDB._get_data *)
(* (instaseis/database_interfaces/forward_merged_instaseis_db.py).         *)
(*                                                                         *)
(* Real numbers are modelled exactly as reduced fractions <<n, d>>, d > 0. *)
(* Angles are modelled exactly on the lattice q*(pi/2) + u*alpha, where    *)
(* alpha = atan2(4, 3), so that every sine and cosine is rational.         *)
(* Floating-point rounding is not modelled.                                *)
(***************************************************************************)
EXTENDS Integers, Sequences, FiniteSets, TLC

----------------------------------------------------------------------------
(* Bounds of the model.                                                    *)

\* number of time samples of a snapshot (npts)
NPts == 2
\* polynomial order of the spectral elements (info.spatial_order)
NPol == 1
\* number of concurrent invocations in SpecShared
NProcs == 2

----------------------------------------------------------------------------
(* Exact arithmetic.                                                       *)

Abs(n) == IF n < 0 THEN -n ELSE n

\* Euclid's algorithm
GCD[a \in Nat, b \in Nat] == IF b = 0 THEN a ELSE GCD[b, a % b]

\* the fraction n/d in lowest terms with a positive denominator
Frac(n, d) ==
    LET g == GCD[Abs(n), Abs(d)]
        sgn == IF d < 0 THEN -1 ELSE 1
    IN  <<sgn * (n \div g), sgn * (d \div g)>>

Num(n) == <<n, 1>>
Zero == <<0, 1>>
One == <<1, 1>>
RAdd(a, b) == Frac(a[1] * b[2] + b[1] * a[2], a[2] * b[2])
RNeg(a) == <<-a[1], a[2]>>
RSub(a, b) == RAdd(a, RNeg(b))
RMul(a, b) == Frac(a[1] * b[1], a[2] * b[2])
RDiv(a, b) == Frac(a[1] * b[2], a[2] * b[1])
\* the fractions, reduced or not
Rat == Int \X Int

----------------------------------------------------------------------------
(* Angles: [q |-> quarter turns, u |-> multiples of alpha].                *)

Angle(q, u) == [q |-> q, u |-> u]
Pi == Angle(2, 0)
TwoPi == Angle(4, 0)
AngAdd(a, b) == Angle(a.q + b.q, a.u + b.u)
\* k * a for an integer k, as in 2 * coordinates.phi
AngMul(k, a) == Angle(k * a.q, k * a.u)

\* (cos, sin) of u * alpha: the u-th power of (3 + 4i)/5
AlphaPow[u \in Int] ==
    IF u = 0 THEN <<One, Zero>>
    ELSE IF u < 0 THEN LET p == AlphaPow[-u] IN <<p[1], RNeg(p[2])>>
    ELSE LET p == AlphaPow[u - 1]
             c == Frac(3, 5)
             s == Frac(4, 5)
         IN  <<RSub(RMul(p[1], c), RMul(p[2], s)),
               RAdd(RMul(p[1], s), RMul(p[2], c))>>

\* (cos, sin) of the angle a
CosSin(a) ==
    LET p == AlphaPow[a.u]
        r == a.q % 4
    IN  CASE r = 0 -> <<p[1], p[2]>>
          [] r = 1 -> <<RNeg(p[2]), p[1]>>
          [] r = 2 -> <<RNeg(p[1]), RNeg(p[2])>>
          [] r = 3 -> <<p[2], RNeg(p[1])>>

Cos(a) == CosSin(a)[1]
Sin(a) == CosSin(a)[2]

\* np.arctan2(s, z) for integers s, z whose angle lies on the lattice
Arctan2(s, z) ==
    IF s = 0 /\ z = 0 THEN Angle(0, 0)
    ELSE LET r == CHOOSE n \in 0..(Abs(s) + Abs(z)) : n * n = s * s + z * z
         IN  CHOOSE a \in {Angle(q, u) : q \in -1..2, u \in -1..1} :
                 /\ RMul(Num(r), Cos(a)) = Num(z)
                 /\ RMul(Num(r), Sin(a)) = Num(s)

----------------------------------------------------------------------------
(* Arrays.  An n-dimensional array is [shape |-> <<..>>, at |-> [idx -> v]] *)
(* with 0-based index tuples; axes are numbered from 0 as in numpy.        *)

\* the index tuples of an array of 2, 3 or 4 dimensions
Indices(shape) ==
    CASE Len(shape) = 2 -> (0..(shape[1] - 1)) \X (0..(shape[2] - 1))
      [] Len(shape) = 3 -> (0..(shape[1] - 1)) \X (0..(shape[2] - 1))
                           \X (0..(shape[3] - 1))
      [] Len(shape) = 4 -> (0..(shape[1] - 1)) \X (0..(shape[2] - 1))
                           \X (0..(shape[3] - 1)) \X (0..(shape[4] - 1))

RemoveAt(seq, k) == SubSeq(seq, 1, k - 1) \o SubSeq(seq, k + 1, Len(seq))
InsertAt(seq, k, x) == SubSeq(seq, 1, k - 1) \o <<x>> \o SubSeq(seq, k, Len(seq))

\* a.transpose(axes): axis k of the result is axis axes[k] of a
Transpose(a, axes) ==
    LET n == Len(a.shape)
        shape == [k \in 1..n |-> a.shape[axes[k] + 1]]
        \* inv[m]: the axis of the result that is axis m - 1 of a
        inv == [m \in 1..n |-> CHOOSE k \in 1..n : axes[k] = m - 1]
    IN  [shape |-> shape,
         at |-> [idx \in Indices(shape) |->
                    a.at[[m \in 1..n |-> idx[inv[m]]]]]]

\* np.rollaxis(a, axis, start): move axis `axis` to lie before position `start`
Rollaxis(a, axis, start) ==
    LET n == Len(a.shape)
        st == IF axis < start THEN start - 1 ELSE start
        axes == [k \in 1..n |-> k - 1]
    IN  IF axis = st THEN a
        ELSE Transpose(a, InsertAt(RemoveAt(axes, axis + 1), st + 1, axis))

\* utemp[:, :, :, v]
LastAxisSlice(a, v) ==
    LET shape == SubSeq(a.shape, 1, Len(a.shape) - 1)
    IN  [shape |-> shape,
         at |-> [idx \in Indices(shape) |-> a.at[idx \o <<v>>]]]

\* np.zeros((n, 3)): rows 0..n-1, columns 0..2 held as <<c0, c1, c2>>
Zeros(n) == [t \in 0..(n - 1) |-> <<Zero, Zero, Zero>>]
\* arr[:, c] = series
SetCol(arr, c, series) == [t \in DOMAIN arr |-> [arr[t] EXCEPT ![c + 1] = series[t]]]
\* arr[:, c]
Col(arr, c) == [t \in DOMAIN arr |-> arr[t][c + 1]]
\* arr[:, c] += series * fac
AddCol(arr, c, series, fac) ==
    [t \in DOMAIN arr |->
        LET row == arr[t]
        IN  [row EXCEPT ![c + 1] = RAdd(row[c + 1], RMul(series[t], fac))]]

----------------------------------------------------------------------------
(* spectral_basis.lagrange_interpol_2D_td                                  *)

RECURSIVE LagrangeBasis(_, _, _, _)
\* product over j = 1..upto, j # i, of (x - points[j]) / (points[i] - points[j])
LagrangeBasis(points, i, x, upto) ==
    IF upto = 0 THEN One
    ELSE LET rest == LagrangeBasis(points, i, x, upto - 1)
         IN  IF upto = i THEN rest
             ELSE RMul(rest, RDiv(RSub(x, points[upto]),
                                  RSub(points[i], points[upto])))

RECURSIVE WeightedSum(_, _, _, _, _)
\* sum over the index pairs in `todo` of coefficients[t, a, b] * l1[a] * l2[b]
WeightedSum(coefficients, t, l1, l2, todo) ==
    IF todo = {} THEN Zero
    ELSE LET ab == CHOOSE p \in todo : TRUE
         IN  RAdd(RMul(Num(coefficients.at[<<t, ab[1], ab[2]>>]),
                       RMul(l1[ab[1]], l2[ab[2]])),
                  WeightedSum(coefficients, t, l1, l2, todo \ {ab}))

lagrange_interpol_2D_td(points1, points2, coefficients, x1, x2) ==
    LET n1 == Len(points1)
        n2 == Len(points2)
        l1 == [a \in 0..(n1 - 1) |-> LagrangeBasis(points1, a + 1, x1, n1)]
        l2 == [b \in 0..(n2 - 1) |-> LagrangeBasis(points2, b + 1, x2, n2)]
    IN  [t \in 0..(coefficients.shape[1] - 1) |->
            WeightedSum(coefficients, t, l1, l2,
                        (0..(n1 - 1)) \X (0..(n2 - 1)))]

----------------------------------------------------------------------------
(* rotations.rotate_vector_src_to_NEZ.  A (3, npts) array is a tuple of    *)
(* three series; an (npts, 3) array is a series of 3-tuples.               *)

\* arr.T for an (npts, 3) array
TransposeToCols(arr) == <<Col(arr, 0), Col(arr, 1), Col(arr, 2)>>
\* arr.T for a (3, npts) array
TransposeToRows(cols) ==
    [t \in DOMAIN cols[1] |-> <<cols[1][t], cols[2][t], cols[3][t]>>]

\* np.dot(rotmat, v)
MatVec(m, v) ==
    [r \in 1..3 |->
        RAdd(RAdd(RMul(m[r][1], v[1]), RMul(m[r][2], v[2])), RMul(m[r][3], v[3]))]

\* cylindrical (s, phi, z) of the source frame to its cartesian (x, y, z)
rotate_frame_src_to_xyz_src(phi) ==
    <<<<Cos(phi), RNeg(Sin(phi)), Zero>>,
      <<Sin(phi), Cos(phi), Zero>>,
      <<Zero, Zero, One>>>>

rotate_frame_xyz_src_to_xyz_earth(lon, colat) ==
    <<<<RMul(Cos(lon), Cos(colat)), RNeg(Sin(lon)), RMul(Cos(lon), Sin(colat))>>,
      <<RMul(Cos(colat), Sin(lon)), Cos(lon), RMul(Sin(lon), Sin(colat))>>,
      <<RNeg(Sin(colat)), Zero, Cos(colat)>>>>

rotate_frame_xyz_earth_to_xyz_src(lon, colat) ==
    <<<<RMul(Cos(lon), Cos(colat)), RMul(Cos(colat), Sin(lon)), RNeg(Sin(colat))>>,
      <<RNeg(Sin(lon)), Cos(lon), Zero>>,
      <<RMul(Cos(lon), Sin(colat)), RMul(Sin(lon), Sin(colat)), Cos(colat)>>>>

\* north is minus the colatitude direction
ThetaToNorth(v) == <<RNeg(v[1]), v[2], v[3]>>

\* vecs is (3, npts); the result is (3, npts) in (N, E, Z) order
rotate_vector_src_to_NEZ(vecs, phi, srclon, srccolat, reclon, reccolat) ==
    [c \in 1..3 |->
        [t \in DOMAIN vecs[1] |->
            ThetaToNorth(
                MatVec(rotate_frame_xyz_earth_to_xyz_src(reclon, reccolat),
                MatVec(rotate_frame_xyz_src_to_xyz_earth(srclon, srccolat),
                MatVec(rotate_frame_src_to_xyz_src(phi),
                       <<vecs[1][t], vecs[2][t], vecs[3][t]>>))))[c]]]

----------------------------------------------------------------------------
(* ForwardMergedInstaseisDB._get_data, one operator per block of the       *)
(* method.  A frame holds the arguments and the locals of one invocation:  *)
(*   pc, source, receiver, components, coordinates, element_info,          *)
(*   data, utemp, displ_1..displ_4, mij, final, rotmesh_colat,             *)
(*   raised (the exception that ended it), returned (the value returned),  *)
(*   rotations (how often rotate_vector_src_to_NEZ was called).            *)

\* the number of variables of a merged snapshot
NVars == 10

Unset == <<>>

\* After with the rotation moved in front of the T and R projections
AfterRotationFirst(pc) ==
    CASE pc = "enter" -> "load"
      [] pc = "load" -> "interpolate"
      [] pc = "interpolate" -> "superpose"
      [] pc = "superpose" -> "NEZ"
      [] pc = "NEZ" -> "T"
      [] pc = "T" -> "R"
      [] pc = "R" -> "return"
      [] pc = "return" -> "done"

\* the statements of the method in program order
After(pc) ==
    CASE pc = "enter" -> "load"
      [] pc = "load" -> "interpolate"
      [] pc = "interpolate" -> "superpose"
      [] pc = "superpose" -> "T"
      [] pc = "T" -> "R"
      [] pc = "R" -> "NEZ"
      [] pc = "NEZ" -> "return"
      [] pc = "return" -> "done"

\* lines 74-83: mu at the centre node of the element
CentreMu(fr, self_) ==
    LET mesh_mu == IF ~self_.read_on_demand
                   THEN self_.parsed_mesh.mesh_mu
                   ELSE self_.parsed_mesh.f.Mesh.mesh_mu
        npol == self_.info.spatial_order
    IN  mesh_mu[fr.element_info.gll_point_ids[<<npol \div 2, npol \div 2>>]]

\* Enter without the guard on the dump type
EnterWithoutDumpCheck(fr, self_) ==
    IF fr.source.kind # "Source"
    THEN [fr EXCEPT !.pc = "raised", !.data = "mu" :> CentreMu(fr, self_),
                    !.raised = "NotImplementedError"]
    ELSE [fr EXCEPT !.pc = After("enter"), !.data = "mu" :> CentreMu(fr, self_)]

\* lines 70-88: data["mu"], then the two guards
Enter(fr, self_) ==
    IF ~(fr.source.kind = "Source")
    THEN [fr EXCEPT !.pc = "raised", !.data = "mu" :> CentreMu(fr, self_),
                    !.raised = "NotImplementedError"]
    ELSE IF self_.info.dump_type # "displ_only"
    THEN [fr EXCEPT !.pc = "raised", !.data = "mu" :> CentreMu(fr, self_),
                    !.raised = "NotImplementedError"]
    ELSE [fr EXCEPT !.pc = After("enter"), !.data = "mu" :> CentreMu(fr, self_)]

\* lines 90-98: (nvars, jpol, ipol, npts) rolled to (npts, jpol, ipol, nvars)
Load(fr, self_) ==
    LET raw == self_.parsed_mesh.f.MergedSnapshots[fr.element_info.id_elem]
        r1 == Rollaxis(raw, 3, 0)
        r2 == Rollaxis(r1, 2, 1)
        r3 == Rollaxis(r2, 3, 2)
    IN  [fr EXCEPT !.pc = After("load"), !.utemp = r3]

\* Interpolate with variable 1 written to column 1 of displ_1 instead of column 2
InterpolateWrongColumn(fr) ==
    LET ei == fr.element_info
        utemp == fr.utemp
        npts == utemp.shape[1]
        I(v) == lagrange_interpol_2D_td(ei.col_points_xi, ei.col_points_eta,
                                        LastAxisSlice(utemp, v), ei.xi, ei.eta)
    IN  [fr EXCEPT
           !.pc = After("interpolate"),
           !.displ_1 = SetCol(SetCol(Zeros(npts), 0, I(0)), 1, I(1)),
           !.displ_2 = SetCol(SetCol(Zeros(npts), 0, I(2)), 2, I(3)),
           !.displ_3 = SetCol(SetCol(SetCol(Zeros(npts), 0, I(4)), 1, I(5)), 2, I(6)),
           !.displ_4 = SetCol(SetCol(SetCol(Zeros(npts), 0, I(7)), 1, I(8)), 2, I(9))]

\* lines 100-143: the four elementary displacements
Interpolate(fr) ==
    LET ei == fr.element_info
        utemp == fr.utemp
        npts == utemp.shape[1]
        I(v) == lagrange_interpol_2D_td(ei.col_points_xi, ei.col_points_eta,
                                        LastAxisSlice(utemp, v), ei.xi, ei.eta)
    IN  [fr EXCEPT
           !.pc = After("interpolate"),
           !.displ_1 = SetCol(SetCol(Zeros(npts), 0, I(0)), 2, I(1)),
           !.displ_2 = SetCol(SetCol(Zeros(npts), 0, I(2)), 2, I(3)),
           !.displ_3 = SetCol(SetCol(SetCol(Zeros(npts), 0, I(4)), 1, I(5)), 2, I(6)),
           !.displ_4 = SetCol(SetCol(SetCol(Zeros(npts), 0, I(7)), 1, I(8)), 2, I(9))]

\* NormalizeTensor as source.tensor /= amplitude: the division done in place
NormalizeTensorInPlace(source, amplitude) ==
    [mij |-> [i \in 1..6 |-> RDiv(source.tensor[i], amplitude)],
     source |-> [source EXCEPT !.tensor = [i \in 1..6 |-> RDiv(source.tensor[i], amplitude)]]]

\* NormalizeTensor without the division by the amplitude
NormalizeTensorSkipped(source, amplitude) ==
    [mij |-> source.tensor, source |-> source]

\* line 145: mij = source.tensor / amplitude, a new array; the source is kept
NormalizeTensor(source, amplitude) ==
    [mij |-> [i \in 1..6 |-> RDiv(source.tensor[i], amplitude)],
     source |-> source]

\* Fac1_1 with m_rp added to, not multiplied by, sin(phi)
Fac1_1Additive(mij, phi) ==
    RAdd(RMul(mij[4], Cos(phi)), RAdd(mij[5], Sin(phi)))
\* Fac2_1 with m_rp added to, not multiplied by, cos(phi)
Fac2_1Additive(mij, phi) ==
    RAdd(RMul(RNeg(mij[4]), Sin(phi)), RAdd(mij[5], Cos(phi)))
\* Fac1_2 with phi where the code has 2 * phi
Fac1_2SingleAngle(mij, phi) ==
    RAdd(RMul(RSub(mij[2], mij[3]), Cos(phi)),
         RMul(RMul(Num(2), mij[6]), Sin(phi)))

\* lines 156-159
Fac1_1(mij, phi) == RAdd(RMul(mij[4], Cos(phi)), RMul(mij[5], Sin(phi)))
Fac2_1(mij, phi) == RAdd(RMul(RNeg(mij[4]), Sin(phi)), RMul(mij[5], Cos(phi)))
\* lines 165-168
Fac1_2(mij, phi) ==
    RAdd(RMul(RSub(mij[2], mij[3]), Cos(AngMul(2, phi))),
         RMul(RMul(Num(2), mij[6]), Sin(AngMul(2, phi))))
Fac2_2(mij, phi) ==
    RAdd(RMul(RNeg(RSub(mij[2], mij[3])), Sin(AngMul(2, phi))),
         RMul(RMul(Num(2), mij[6]), Cos(AngMul(2, phi))))

\* lines 150-172: the ten statements final[:, col] += series * fac, in order;
\* mij[k] of the code is mij[k + 1]
Accumulations(displ_1, displ_2, displ_3, displ_4, mij, phi) ==
    <<[col |-> 0, series |-> Col(displ_1, 0), fac |-> mij[1]],
      [col |-> 2, series |-> Col(displ_1, 2), fac |-> mij[1]],
      [col |-> 0, series |-> Col(displ_2, 0), fac |-> RAdd(mij[2], mij[3])],
      [col |-> 2, series |-> Col(displ_2, 2), fac |-> RAdd(mij[2], mij[3])],
      [col |-> 0, series |-> Col(displ_3, 0), fac |-> Fac1_1(mij, phi)],
      [col |-> 1, series |-> Col(displ_3, 1), fac |-> Fac2_1(mij, phi)],
      [col |-> 2, series |-> Col(displ_3, 2), fac |-> Fac1_1(mij, phi)],
      [col |-> 0, series |-> Col(displ_4, 0), fac |-> Fac1_2(mij, phi)],
      [col |-> 1, series |-> Col(displ_4, 1), fac |-> Fac2_2(mij, phi)],
      [col |-> 2, series |-> Col(displ_4, 2), fac |-> Fac1_2(mij, phi)]>>

\* one statement final[:, col] += series * fac
Accumulation == [col : 0..2, series : [0..(NPts - 1) -> Rat], fac : Rat]

\* final after the accumulations acc[1..k], starting from np.zeros
Accumulate[acc \in Seq(Accumulation), k \in Nat] ==
    IF k = 0 THEN Zeros(Cardinality(DOMAIN acc[1].series))
    ELSE AddCol(Accumulate[acc, k - 1], acc[k].col, acc[k].series, acc[k].fac)

\* lines 148-172: final in (s, phi, z) order
Combine(displ_1, displ_2, displ_3, displ_4, mij, phi) ==
    Accumulate[Accumulations(displ_1, displ_2, displ_3, displ_4, mij, phi), 10]

\* RotmeshColat with the arguments of arctan2 exchanged
RotmeshColatSwapped(coordinates) == Arctan2(coordinates.z, coordinates.s)

\* line 174
RotmeshColat(coordinates) == Arctan2(coordinates.s, coordinates.z)

\* lines 145-174
Superpose(fr, self_) ==
    LET n == NormalizeTensor(fr.source, self_.parsed_mesh.amplitude)
    IN  [fr EXCEPT
           !.pc = After("superpose"),
           !.source = n.source,
           !.mij = n.mij,
           !.final = Combine(fr.displ_1, fr.displ_2, fr.displ_3, fr.displ_4,
                             n.mij, fr.coordinates.phi),
           !.rotmesh_colat = RotmeshColat(fr.coordinates)]

\* line 179
TransverseSeries(final) == [t \in DOMAIN final |-> RNeg(final[t][2])]

\* lines 182-183
RadialSeries(final, rotmesh_colat) ==
    [t \in DOMAIN final |->
        RSub(RMul(final[t][1], Cos(rotmesh_colat)),
             RMul(final[t][3], Sin(rotmesh_colat)))]

\* ProjectT without the guard on the requested components
ProjectTAlways(fr) ==
    [fr EXCEPT
       !.pc = After("T"),
       !.data = ("T" :> TransverseSeries(fr.final)) @@ fr.data]

\* lines 176-179
ProjectT(fr) ==
    [fr EXCEPT
       !.pc = After("T"),
       !.data = IF "T" \in fr.components
                THEN ("T" :> TransverseSeries(fr.final)) @@ fr.data
                ELSE fr.data]

\* lines 181-183
ProjectR(fr) ==
    [fr EXCEPT
       !.pc = After("R"),
       !.data = IF "R" \in fr.components
                THEN ("R" :> RadialSeries(fr.final, fr.rotmesh_colat)) @@ fr.data
                ELSE fr.data]

\* line 185
NeedsRotation(components) ==
    "N" \in components \/ "E" \in components \/ "Z" \in components

\* lines 188-191
Rotated(fr) ==
    TransposeToRows(rotate_vector_src_to_NEZ(
        TransposeToCols(fr.final), fr.coordinates.phi,
        fr.source.longitude_rad, fr.source.colatitude_rad,
        fr.receiver.longitude_rad, fr.receiver.colatitude_rad))

\* lines 193-198: the entries of data after the three guarded assignments
WithNEZ(data, components, rotated) ==
    [l \in DOMAIN data \cup (components \cap {"N", "E", "Z"}) |->
        IF l = "N" /\ "N" \in components THEN Col(rotated, 0)
        ELSE IF l = "E" /\ "E" \in components THEN Col(rotated, 1)
        ELSE IF l = "Z" /\ "Z" \in components THEN Col(rotated, 2)
        ELSE data[l]]

\* final and data after lines 188-198
AfterRotation(fr, rotated) ==
    [fr EXCEPT !.pc = After("NEZ"), !.final = rotated,
               !.data = WithNEZ(fr.data, fr.components, rotated),
               !.rotations = fr.rotations + 1]

\* lines 185-198
RotateNEZ(fr) ==
    IF NeedsRotation(fr.components)
    THEN AfterRotation(fr, Rotated(fr))
    ELSE [fr EXCEPT !.pc = After("NEZ")]

\* line 200
Return(fr) == [fr EXCEPT !.pc = After("return"), !.returned = fr.data]

\* the frame of a fresh call
NewFrame(source, receiver, components, coordinates, element_info) ==
    [pc |-> "enter", source |-> source, receiver |-> receiver,
     components |-> components, coordinates |-> coordinates,
     element_info |-> element_info,
     data |-> Unset, utemp |-> Unset,
     displ_1 |-> Unset, displ_2 |-> Unset, displ_3 |-> Unset, displ_4 |-> Unset,
     mij |-> Unset, final |-> Unset, rotmesh_colat |-> Unset,
     raised |-> "", returned |-> Unset, rotations |-> 0]

\* one statement block of the method, chosen by the frame's position
StepFrame(fr, self_) ==
    CASE fr.pc = "enter" -> Enter(fr, self_)
      [] fr.pc = "load" -> Load(fr, self_)
      [] fr.pc = "interpolate" -> Interpolate(fr)
      [] fr.pc = "superpose" -> Superpose(fr, self_)
      [] fr.pc = "T" -> ProjectT(fr)
      [] fr.pc = "R" -> ProjectR(fr)
      [] fr.pc = "NEZ" -> RotateNEZ(fr)
      [] fr.pc = "return" -> Return(fr)

RECURSIVE RunFrame(_, _)
\* the method run to its end from the frame fr (f = f has each
\* intermediate frame evaluated once, as a value)
RunFrame(fr, self_) ==
    IF fr.pc \in {"done", "raised"} THEN fr
    ELSE CHOOSE end \in {RunFrame(next, self_) :
                             next \in {f \in {StepFrame(fr, self_)} : f = f}} : TRUE

\* the whole call: the frame it ends in
_get_data(self_, source, receiver, components, coordinates, element_info) ==
    RunFrame(NewFrame(source, receiver, components, coordinates, element_info), self_)

----------------------------------------------------------------------------
(* The databases, and the arguments callers pass.                          *)

Procs == 1..NProcs
Labels == {"T", "R", "N", "E", "Z"}

\* collocation points of order n on [-1, 1] (the GLL points for n <= 2)
ColPoints(n) == [k \in 1..(n + 1) |-> Frac(2 * (k - 1) - n, n)]

SnapshotShape == <<NVars, NPol + 1, NPol + 1, NPts>>

\* element 0: sample 0 excites variable 0 alone; later samples are uniform
\* over the element with variables 4, 5, 6 equal to t, 2t, 3t
Snapshot0 ==
    [shape |-> SnapshotShape,
     at |-> [idx \in Indices(SnapshotShape) |->
                IF idx[4] = 0 THEN (IF idx[1] = 0 THEN 1 ELSE 0)
                ELSE (idx[1] - 3) * idx[4]]]

\* element 1: every variable, node and time sample differs
Snapshot1 ==
    [shape |-> SnapshotShape,
     at |-> [idx \in Indices(SnapshotShape) |->
                (idx[1] + 1) * (idx[4] + 1) + 2 * idx[2] - idx[3]]]

MergedSnapshots == (0 :> Snapshot0) @@ (1 :> Snapshot1)

GllPointIds(id_elem) ==
    [idx \in Indices(<<NPol + 1, NPol + 1>>) |->
        id_elem * (NPol + 1) * (NPol + 1) + idx[1] * (NPol + 1) + idx[2]]

MeshMu == [g \in 0..(2 * (NPol + 1) * (NPol + 1) - 1) |-> Num(10 + g)]

Database(dump_type, amplitude, read_on_demand) ==
    [read_on_demand |-> read_on_demand,
     info |-> [spatial_order |-> NPol, dump_type |-> dump_type],
     parsed_mesh |-> [mesh_mu |-> MeshMu,
                      amplitude |-> amplitude,
                      f |-> [Mesh |-> [mesh_mu |-> MeshMu],
                             MergedSnapshots |-> MergedSnapshots]]]

Databases ==
    {Database("displ_only", Num(1), FALSE),
     Database("displ_only", Num(2), TRUE),
     Database("fullfields", Num(2), FALSE)}

Tensor(a, b, c, d, e, f) == <<Num(a), Num(b), Num(c), Num(d), Num(e), Num(f)>>

Tensors ==
    {Tensor(0, 0, 0, 0, 0, 0), Tensor(2, 0, 0, 0, 0, 0),
     Tensor(0, 0, 0, 1, 1, 0), Tensor(1, 3, -1, 2, -1, 1)}

Positions == {<<Angle(0, 0), Angle(1, 0)>>, <<Angle(0, 1), Angle(0, 1)>>}

Sources ==
    {[kind |-> "Source", tensor |-> m,
      longitude_rad |-> pos[1], colatitude_rad |-> pos[2]] :
        m \in Tensors, pos \in Positions}
    \cup {[kind |-> "ForceSource", tensor |-> Tensor(0, 0, 0, 0, 0, 0),
           longitude_rad |-> Angle(0, 0), colatitude_rad |-> Angle(1, 0)]}

Receivers == {[longitude_rad |-> Angle(1, 0), colatitude_rad |-> Angle(1, -1)]}

Coordinates ==
    {[phi |-> Angle(0, 0), s |-> 0, z |-> 1],
     [phi |-> Angle(0, 1), s |-> 1, z |-> 0],
     [phi |-> Angle(1, 1), s |-> 4, z |-> 3],
     [phi |-> Angle(3, 0), s |-> 3, z |-> 4]}

ElementInfo(id_elem, xi, eta) ==
    [id_elem |-> id_elem, xi |-> xi, eta |-> eta,
     col_points_xi |-> ColPoints(NPol), col_points_eta |-> ColPoints(NPol),
     gll_point_ids |-> GllPointIds(id_elem)]

ElementInfos ==
    {ElementInfo(0, Num(0), Frac(1, 2)),
     ElementInfo(1, Num(-1), Num(1)),
     ElementInfo(1, Frac(1, 2), Num(0))}

Arguments(sources, receivers, componentSets, coordinates, elementInfos) ==
    [source : sources, receiver : receivers, components : componentSets,
     coordinates : coordinates, element_info : elementInfos]

\* the calls of Spec: every sampled source, geometry and element with a few
\* component sets, and every component set with a few of the others
AllArguments ==
    Arguments(Sources, Receivers, {Labels, {"T", "R"}, {"E"}},
              Coordinates, ElementInfos)
    \cup Arguments({src \in Sources : src.tensor = Tensor(1, 3, -1, 2, -1, 1)},
                   Receivers, SUBSET Labels,
                   {c \in Coordinates : c.s \in {0, 4}},
                   {ei \in ElementInfos : ei.xi = Frac(1, 2)})

\* the calls of SpecShared: a few calls that read the same snapshot
SharedArguments ==
    Arguments({src \in Sources : src.tensor = Tensor(1, 3, -1, 2, -1, 1)
                                  /\ src.longitude_rad = Angle(0, 1)},
              Receivers, {{"T", "R"}, {"R", "N", "Z"}},
              {c \in Coordinates : c.s = 4},
              {ei \in ElementInfos : ei.xi = Frac(1, 2)})
    \cup Arguments({src \in Sources : src.kind # "Source"},
                   Receivers, {{"T", "R"}},
                   {c \in Coordinates : c.s = 4},
                   {ei \in ElementInfos : ei.xi = Frac(1, 2)})

----------------------------------------------------------------------------
(* The state machine.                                                      *)

VARIABLES
    self,       \* the database object: info, parsed_mesh, read_on_demand
    frames,     \* frames[p]: the invocation of caller p, or [pc |-> "idle"]
    given       \* given[p]: the arguments caller p passed, as it passed them

vars == <<self, frames, given>>

Idle == [pc |-> "idle"]

Init ==
    /\ self \in Databases
    /\ frames = [p \in Procs |-> Idle]
    /\ given = [p \in Procs |-> Unset]

\* caller p invokes _get_data
Call(p, arguments) ==
    /\ frames[p].pc = "idle"
    /\ \E a \in arguments :
          /\ frames' = [frames EXCEPT ![p] =
                           NewFrame(a.source, a.receiver, a.components,
                                    a.coordinates, a.element_info)]
          /\ given' = [given EXCEPT ![p] = a]
    /\ UNCHANGED self

\* lines 70-88
EnterStep(p) ==
    /\ frames[p].pc = "enter"
    /\ frames' = [frames EXCEPT ![p] = Enter(frames[p], self)]
    /\ UNCHANGED <<self, given>>

\* lines 90-98
LoadStep(p) ==
    /\ frames[p].pc = "load"
    /\ frames' = [frames EXCEPT ![p] = Load(frames[p], self)]
    /\ UNCHANGED <<self, given>>

\* lines 100-143
InterpolateStep(p) ==
    /\ frames[p].pc = "interpolate"
    /\ frames' = [frames EXCEPT ![p] = Interpolate(frames[p])]
    /\ UNCHANGED <<self, given>>

\* lines 145-174
SuperposeStep(p) ==
    /\ frames[p].pc = "superpose"
    /\ frames' = [frames EXCEPT ![p] = Superpose(frames[p], self)]
    /\ UNCHANGED <<self, given>>

\* lines 176-179
ProjectTStep(p) ==
    /\ frames[p].pc = "T"
    /\ frames' = [frames EXCEPT ![p] = ProjectT(frames[p])]
    /\ UNCHANGED <<self, given>>

\* lines 181-183
ProjectRStep(p) ==
    /\ frames[p].pc = "R"
    /\ frames' = [frames EXCEPT ![p] = ProjectR(frames[p])]
    /\ UNCHANGED <<self, given>>

\* lines 185-198
RotateNEZStep(p) ==
    /\ frames[p].pc = "NEZ"
    /\ frames' = [frames EXCEPT ![p] = RotateNEZ(frames[p])]
    /\ UNCHANGED <<self, given>>

\* line 200
ReturnStep(p) ==
    /\ frames[p].pc = "return"
    /\ frames' = [frames EXCEPT ![p] = Return(frames[p])]
    /\ UNCHANGED <<self, given>>

\* caller p has taken the result or the exception
Finish(p) ==
    /\ frames[p].pc \in {"done", "raised"}
    /\ frames' = [frames EXCEPT ![p] = Idle]
    /\ given' = [given EXCEPT ![p] = Unset]
    /\ UNCHANGED self

Steps(p, arguments) ==
    \/ Call(p, arguments)
    \/ EnterStep(p)
    \/ LoadStep(p)
    \/ InterpolateStep(p)
    \/ SuperposeStep(p)
    \/ ProjectTStep(p)
    \/ ProjectRStep(p)
    \/ RotateNEZStep(p)
    \/ ReturnStep(p)
    \/ Finish(p)

\* one caller, every sampled call
Next == Steps(1, AllArguments)

Spec == Init /\ [][Next]_vars

\* NProcs callers whose invocations interleave on one database
NextShared == \E p \in Procs : Steps(p, SharedArguments)

SpecShared == Init /\ [][NextShared]_vars

----------------------------------------------------------------------------
(* Notions the properties below are stated in.                             *)

Active == {p \in Procs : frames[p].pc # "idle"}
Finished == {p \in Procs : frames[p].pc = "done"}
\* final holds the combined displacement, not yet rotated
Combined == {p \in Procs : frames[p].pc \in {"T", "R", "NEZ"}}
\* the elementary displacements are filled
Interpolated ==
    {p \in Procs : frames[p].pc \in {"superpose", "T", "R", "NEZ", "return", "done"}}

\* the call of p repeated on the same database with other components / source
Again(p, components, source) ==
    _get_data(self, source, given[p].receiver, components,
              given[p].coordinates, given[p].element_info)

ScaleSeries(k, series) == [t \in DOMAIN series |-> RMul(k, series[t])]
ScaleTensor(k, tensor) == [i \in 1..6 |-> RMul(k, tensor[i])]
IsZeroSeries(series) == \A t \in DOMAIN series : series[t] = Zero
ZeroTensor == Tensor(0, 0, 0, 0, 0, 0)

\* the combined displacement of p, recomputed from its elementary displacements
CombinedOf(p, mij, phi) ==
    Combine(frames[p].displ_1, frames[p].displ_2, frames[p].displ_3,
            frames[p].displ_4, mij, phi)

----------------------------------------------------------------------------
(* C1 *)

\* C1 as stated: the returned mapping has exactly the requested labels as keys,
\* and each requested series equals the one returned when all of T, R, N, E, Z
\* are requested.
C1_OnlyRequestedKeys ==
    \A p \in Finished :
        /\ DOMAIN frames[p].returned = given[p].components
        /\ \A full \in {Again(p, Labels, given[p].source)} :
              \A l \in given[p].components :
                  frames[p].returned[l] = full.returned[l]

\* C1 amended: the returned mapping has the requested labels and the key "mu",
\* and no other key; each requested series equals the one returned when all of
\* T, R, N, E, Z are requested.
C1_RequestedKeysAndMu ==
    \A p \in Finished :
        /\ DOMAIN frames[p].returned = given[p].components \cup {"mu"}
        /\ \A full \in {Again(p, Labels, given[p].source)} :
              \A l \in given[p].components :
                  frames[p].returned[l] = full.returned[l]

C1_Witness ==
    \E p \in Finished :
        /\ given[p].components = {"T", "N"}
        /\ ~IsZeroSeries(frames[p].returned["T"])
        /\ ~IsZeroSeries(frames[p].returned["N"])

----------------------------------------------------------------------------
(* C2 *)

Unsupported(p) ==
    \/ given[p].source.kind # "Source"
    \/ self.info.dump_type # "displ_only"

\* C2: a call whose source is not a Source, or on a database whose dump type is
\* not displ_only, ends in NotImplementedError at its first block; it returns
\* nothing and no component series is ever computed for it.
C2_Rejected ==
    \A p \in Active :
        Unsupported(p) =>
            /\ frames[p].pc \in {"enter", "raised"}
            /\ frames[p].pc = "raised" => frames[p].raised = "NotImplementedError"
            /\ frames[p].returned = Unset
            /\ frames[p].pc = "raised" => DOMAIN frames[p].data \cap Labels = {}

C2_Witness ==
    \E p \in Active :
        /\ frames[p].pc = "raised"
        /\ given[p].source.kind = "Source"
        /\ self.info.dump_type = "fullfields"
        /\ given[p].components = Labels

----------------------------------------------------------------------------
(* C3 *)

ScaleFactors == {Frac(1, 2), Num(3)}

\* C3: for each scale factor k > 0, the call repeated with the moment tensor
\* multiplied by k returns, for every requested component, k times the series.
C3_Linear ==
    \A p \in Finished : \A k \in ScaleFactors :
        \A scaled \in {Again(p, given[p].components,
                               [given[p].source EXCEPT
                                   !.tensor = ScaleTensor(k, given[p].source.tensor)])} :
            \A l \in given[p].components :
                scaled.returned[l] = ScaleSeries(k, frames[p].returned[l])

C3_Witness ==
    \E p \in Finished :
        /\ given[p].components = Labels
        /\ \A l \in Labels : ~IsZeroSeries(frames[p].returned[l])

----------------------------------------------------------------------------
(* C4 *)

\* C4: with an all-zero moment tensor every returned component series is zero
\* at every time sample.
C4_ZeroTensor ==
    \A p \in Finished :
        given[p].source.tensor = ZeroTensor =>
            \A l \in given[p].components : IsZeroSeries(frames[p].returned[l])

C4_Witness ==
    \E p \in Finished :
        /\ given[p].source.tensor = ZeroTensor
        /\ given[p].components = Labels
        /\ given[p].element_info.id_elem = 1
        /\ given[p].coordinates.phi = Angle(1, 1)

----------------------------------------------------------------------------
(* C5 *)

NegRows(arr) == [t \in DOMAIN arr |-> <<RNeg(arr[t][1]), RNeg(arr[t][2]), RNeg(arr[t][3])>>]
IsZeroRows(arr) == \A t \in DOMAIN arr : arr[t] = <<Zero, Zero, Zero>>

\* the m_rt, m_rp part of a moment tensor
FirstOrderPart(m) == <<Zero, Zero, Zero, m[4], m[5], Zero>>
\* the m_tt - m_pp, m_tp part
SecondOrderPart(m) ==
    <<Zero, RDiv(RSub(m[2], m[3]), Num(2)), RDiv(RSub(m[3], m[2]), Num(2)),
      Zero, Zero, m[6]>>
\* the m_rr, m_tt + m_pp part
AxialPart(m) ==
    <<m[1], RDiv(RAdd(m[2], m[3]), Num(2)), RDiv(RAdd(m[2], m[3]), Num(2)),
      Zero, Zero, Zero>>

\* C5: with the elementary displacements and the moment tensor fixed, phi + 2 pi
\* gives the same combined displacement as phi; phi + pi negates the
\* contribution of the m_rt, m_rp terms and leaves the contributions of the
\* m_tt - m_pp, m_tp terms and of the m_rr, m_tt + m_pp terms as they are.
C5_Azimuth ==
    \A p \in Combined :
        \A phi \in {frames[p].coordinates.phi} : \A m \in {frames[p].mij} :
            /\ CombinedOf(p, m, AngAdd(phi, TwoPi)) = frames[p].final
            /\ CombinedOf(p, FirstOrderPart(m), AngAdd(phi, Pi))
                 = NegRows(CombinedOf(p, FirstOrderPart(m), phi))
            /\ CombinedOf(p, SecondOrderPart(m), AngAdd(phi, Pi))
                 = CombinedOf(p, SecondOrderPart(m), phi)
            /\ CombinedOf(p, AxialPart(m), AngAdd(phi, Pi))
                 = CombinedOf(p, AxialPart(m), phi)

C5_Witness ==
    \E p \in Combined :
        /\ frames[p].coordinates.phi = Angle(1, 1)
        /\ \A i \in 1..6 : frames[p].mij[i] # Zero
        /\ ~IsZeroRows(CombinedOf(p, FirstOrderPart(frames[p].mij),
                                  frames[p].coordinates.phi))
        /\ ~IsZeroRows(CombinedOf(p, SecondOrderPart(frames[p].mij),
                                  frames[p].coordinates.phi))

----------------------------------------------------------------------------
(* C6 *)

Sum4(a, b, c, d) == RAdd(RAdd(a, b), RAdd(c, d))

\* the superposition formula for sample t, on the rows d1..d4 of the elementary
\* displacements, with the moment tensor m already normalised
Superposition(d1, d2, d3, d4, m, phi) ==
    <<Sum4(RMul(d1[1], m[1]),
           RMul(d2[1], RAdd(m[2], m[3])),
           RMul(d3[1], RAdd(RMul(m[4], Cos(phi)), RMul(m[5], Sin(phi)))),
           RMul(d4[1], RAdd(RMul(RSub(m[2], m[3]), Cos(AngMul(2, phi))),
                            RMul(RMul(Num(2), m[6]), Sin(AngMul(2, phi)))))),
      RAdd(RMul(d3[2], RSub(RMul(m[5], Cos(phi)), RMul(m[4], Sin(phi)))),
           RMul(d4[2], RSub(RMul(RMul(Num(2), m[6]), Cos(AngMul(2, phi))),
                            RMul(RSub(m[2], m[3]), Sin(AngMul(2, phi)))))),
      Sum4(RMul(d1[3], m[1]),
           RMul(d2[3], RAdd(m[2], m[3])),
           RMul(d3[3], RAdd(RMul(m[4], Cos(phi)), RMul(m[5], Sin(phi)))),
           RMul(d4[3], RAdd(RMul(RSub(m[2], m[3]), Cos(AngMul(2, phi))),
                            RMul(RMul(Num(2), m[6]), Sin(AngMul(2, phi))))))>>

IsUnitRadialCase(p, t) ==
    /\ frames[p].displ_1[t] = <<One, Zero, Zero>>
    /\ frames[p].displ_2[t] = <<Zero, Zero, Zero>>
    /\ frames[p].displ_3[t] = <<Zero, Zero, Zero>>
    /\ frames[p].displ_4[t] = <<Zero, Zero, Zero>>
    /\ given[p].source.tensor = Tensor(2, 0, 0, 0, 0, 0)
    /\ self.parsed_mesh.amplitude = One

\* C6: the combined displacement is the superposition formula applied to the
\* source tensor divided by the database amplitude; and displ_1 = [1, 0, 0],
\* the other elementary displacements zero, tensor [2, 0, 0, 0, 0, 0] and
\* amplitude 1 give [2, 0, 0].
C6_Superposition ==
    \A p \in Combined :
        \A m \in {[i \in 1..6 |-> RDiv(given[p].source.tensor[i],
                                        self.parsed_mesh.amplitude)]} :
            \A t \in DOMAIN frames[p].final :
                /\ frames[p].final[t] =
                      Superposition(frames[p].displ_1[t], frames[p].displ_2[t],
                                    frames[p].displ_3[t], frames[p].displ_4[t],
                                    m, frames[p].coordinates.phi)
                /\ IsUnitRadialCase(p, t) =>
                      frames[p].final[t] = <<Num(2), Zero, Zero>>

C6_Witness ==
    \E p \in Combined : \E t \in DOMAIN frames[p].final :
        /\ IsUnitRadialCase(p, t)
        /\ frames[p].final[t] = <<Num(2), Zero, Zero>>

----------------------------------------------------------------------------
(* C7 *)

IsFixedPointCase(p, combined, t) ==
    /\ given[p].coordinates.s = 0
    /\ given[p].coordinates.z = 1
    /\ combined[t] = <<Num(1), Num(2), Num(3)>>

\* C7: T is minus the transverse component of the combined displacement, and
\* R is radial * cos(c) - vertical * sin(c) with c = atan2(s, z), that is,
\* with r = sqrt(s^2 + z^2), r * R = radial * z - vertical * s; s = 0, z = 1
\* and combined displacement (1, 2, 3) give R = 1 and T = -2.
C7_Projection ==
    \A p \in Finished :
        \A combined \in {CombinedOf(p, frames[p].mij, given[p].coordinates.phi)} :
            \A t \in DOMAIN combined :
                /\ "T" \in given[p].components =>
                      /\ frames[p].returned["T"][t] = RNeg(combined[t][2])
                      /\ IsFixedPointCase(p, combined, t) =>
                            frames[p].returned["T"][t] = Num(-2)
                /\ "R" \in given[p].components =>
                      /\ \E r \in 1..(given[p].coordinates.s + given[p].coordinates.z) :
                            /\ r * r = given[p].coordinates.s * given[p].coordinates.s
                                       + given[p].coordinates.z * given[p].coordinates.z
                            /\ RMul(Num(r), frames[p].returned["R"][t])
                                 = RSub(RMul(combined[t][1], Num(given[p].coordinates.z)),
                                        RMul(combined[t][3], Num(given[p].coordinates.s)))
                      /\ IsFixedPointCase(p, combined, t) =>
                            frames[p].returned["R"][t] = Num(1)

C7_Witness ==
    \E p \in Finished :
        /\ {"T", "R"} \subseteq given[p].components
        /\ \E t \in DOMAIN frames[p].returned["T"] :
              /\ IsFixedPointCase(p, CombinedOf(p, frames[p].mij,
                                                given[p].coordinates.phi), t)
              /\ frames[p].returned["R"][t] = Num(1)
              /\ frames[p].returned["T"][t] = Num(-2)

----------------------------------------------------------------------------
(* C8 *)

\* C8: whatever invocations have run or are running, interleaved and reading
\* the same stored snapshots, the stored snapshots are as they were and every
\* invocation's source, receiver, coordinates, element info and component set
\* are as its caller passed them.
C8_InputsUnchanged ==
    /\ self.parsed_mesh.f.MergedSnapshots = MergedSnapshots
    /\ \A p \in Active :
          /\ frames[p].source = given[p].source
          /\ frames[p].receiver = given[p].receiver
          /\ frames[p].coordinates = given[p].coordinates
          /\ frames[p].element_info = given[p].element_info
          /\ frames[p].components = given[p].components

C8_Witness ==
    \E p \in Finished : \E q \in Procs \ {p} :
        /\ frames[q].pc = "T"
        /\ frames[q].element_info.id_elem = frames[p].element_info.id_elem
        /\ frames[p].rotations = 1
        /\ frames[p].final # frames[q].final

----------------------------------------------------------------------------
(* C9 *)

\* C9: the rotation is called once if N, E or Z is requested and never
\* otherwise; it has not been called while T and R are still to be derived;
\* and T and R are the projections of the unrotated combined displacement.
C9_RotationOrder ==
    \A p \in Active :
        /\ frames[p].rotations \in {0, 1}
        /\ frames[p].pc \in {"T", "R", "NEZ"} => frames[p].rotations = 0
        /\ frames[p].pc = "NEZ" =>
              DOMAIN frames[p].data \cap Labels = frames[p].components \cap {"T", "R"}
        /\ frames[p].pc \in {"return", "done"} =>
              frames[p].rotations =
                  IF given[p].components \cap {"N", "E", "Z"} # {} THEN 1 ELSE 0
        /\ frames[p].pc = "done" =>
              \A combined \in {CombinedOf(p, frames[p].mij, given[p].coordinates.phi)} :
                  /\ "T" \in given[p].components =>
                        frames[p].returned["T"] = TransverseSeries(combined)
                  /\ "R" \in given[p].components =>
                        frames[p].returned["R"] =
                            RadialSeries(combined, frames[p].rotmesh_colat)

C9_Witness ==
    \E p \in Finished :
        /\ given[p].components = {"T", "R", "N"}
        /\ frames[p].rotations = 1
        /\ frames[p].final # CombinedOf(p, frames[p].mij, given[p].coordinates.phi)
        /\ frames[p].returned["T"] # [t \in DOMAIN frames[p].final |-> RNeg(frames[p].final[t][2])]

----------------------------------------------------------------------------
(* C10 *)

\* variable v of the stored snapshot of an element, interpolated at (xi, eta)
FieldAt(raw, v, ei) ==
    lagrange_interpol_2D_td(
        ei.col_points_xi, ei.col_points_eta,
        [shape |-> <<raw.shape[4], raw.shape[2], raw.shape[3]>>,
         at |-> [idx \in Indices(<<raw.shape[4], raw.shape[2], raw.shape[3]>>) |->
                    raw.at[<<v, idx[2], idx[3], idx[1]>>]]],
        ei.xi, ei.eta)

\* the elementary displacement and the column that variable v fills
Target ==
    [v \in 0..(NVars - 1) |->
        CASE v = 0 -> <<1, 0>> [] v = 1 -> <<1, 2>>
          [] v = 2 -> <<2, 0>> [] v = 3 -> <<2, 2>>
          [] v = 4 -> <<3, 0>> [] v = 5 -> <<3, 1>> [] v = 6 -> <<3, 2>>
          [] v = 7 -> <<4, 0>> [] v = 8 -> <<4, 1>> [] v = 9 -> <<4, 2>>]

Displ(p, k) ==
    CASE k = 1 -> frames[p].displ_1 [] k = 2 -> frames[p].displ_2
      [] k = 3 -> frames[p].displ_3 [] k = 4 -> frames[p].displ_4

\* C10: each of the ten variables, interpolated at (xi, eta), is one column of
\* one elementary displacement (0, 1 -> displ_1 radial, vertical; 2, 3 ->
\* displ_2 radial, vertical; 4, 5, 6 -> displ_3; 7, 8, 9 -> displ_4); the
\* transverse columns of displ_1 and displ_2 are zero; and the combined
\* transverse component is made of variables 5 and 8 alone.
C10_VariableMapping ==
    \A p \in Interpolated :
        \A raw \in {self.parsed_mesh.f.MergedSnapshots[given[p].element_info.id_elem]} :
            /\ \A v \in 0..(NVars - 1) :
                  Col(Displ(p, Target[v][1]), Target[v][2])
                    = FieldAt(raw, v, given[p].element_info)
            /\ IsZeroSeries(Col(frames[p].displ_1, 1))
            /\ IsZeroSeries(Col(frames[p].displ_2, 1))
            /\ p \in Combined =>
                  \A f5 \in {FieldAt(raw, 5, given[p].element_info)} :
                  \A f8 \in {FieldAt(raw, 8, given[p].element_info)} :
                      \A t \in DOMAIN frames[p].final :
                          frames[p].final[t][2] =
                              RAdd(RMul(f5[t], Fac2_1(frames[p].mij, given[p].coordinates.phi)),
                                   RMul(f8[t], Fac2_2(frames[p].mij, given[p].coordinates.phi)))

C10_Witness ==
    \E p \in Combined :
        /\ given[p].element_info.id_elem = 1
        /\ given[p].element_info.xi = Frac(1, 2)
        /\ \A t \in DOMAIN frames[p].final : frames[p].final[t][2] # Zero
        /\ \A k \in 1..4 : \A t \in DOMAIN frames[p].final :
              /\ Displ(p, k)[t][1] # Zero
              /\ Displ(p, k)[t][3] # Zero

====
